---- MODULE Spec2Model ----
(***************************************************************************)
(* Model of scripts/poll_ebay_rss.py: the eBay RSS monitor.  One process   *)
(* invocation (main) is a run; runs follow each other and share only the   *)
(* files config/searches.json and data/seen.json, the environment and the  *)
(* remote feeds.                                                           *)
(*                                                                         *)
(* Python strings that the code transforms character by character are      *)
(* sequences of one-character strings; JSON values read from or written to *)
(* data/seen.json are records [t |-> type, v |-> characters].              *)
(***************************************************************************)
EXTENDS Integers, Sequences, FiniteSets, Bags, TLC

\* ------------------------------------------------------------------ strings
\* Python's None; no Python string is equal to it.
None == <<"<None>">>

\* Python's `a or b` for a, b that are None or strings.
Or(a, b) == IF a = None \/ a = <<>> THEN b ELSE a

Whitespace == {" ", "\t", "\n"}

RECURSIVE lstrip(_)
lstrip(s) == IF s # <<>> /\ Head(s) \in Whitespace THEN lstrip(Tail(s)) ELSE s

RECURSIVE rstrip(_)
rstrip(s) ==
  IF s # <<>> /\ s[Len(s)] \in Whitespace THEN rstrip(SubSeq(s, 1, Len(s) - 1)) ELSE s

\* str.strip()
strip(s) == rstrip(lstrip(s))

UpperCase == <<"A","B","C","D","E","F","G","H","I","J","K","L","M",
               "N","O","P","Q","R","S","T","U","V","W","X","Y","Z">>
LowerCase == <<"a","b","c","d","e","f","g","h","i","j","k","l","m",
               "n","o","p","q","r","s","t","u","v","w","x","y","z">>

IndexIn(c, alphabet) ==
  IF \E i \in 1..Len(alphabet) : alphabet[i] = c
    THEN CHOOSE i \in 1..Len(alphabet) : alphabet[i] = c
    ELSE 0

\* str.lower() and str.upper()
lower(s) == [i \in 1..Len(s) |->
               IF IndexIn(s[i], UpperCase) # 0 THEN LowerCase[IndexIn(s[i], UpperCase)] ELSE s[i]]
upper(s) == [i \in 1..Len(s) |->
               IF IndexIn(s[i], LowerCase) # 0 THEN UpperCase[IndexIn(s[i], LowerCase)] ELSE s[i]]

\* ------------------------------------------------------- module constants
US == <<"U","S">>
UK == <<"U","K">>
DE == <<"D","E">>
FR == <<"F","R">>

SITE_BASE ==
  [s \in {US, UK, DE, FR} |->
     CASE s = US -> "https://www.ebay.com"
       [] s = UK -> "https://www.ebay.co.uk"
       [] s = DE -> "https://www.ebay.de"
       [] s = FR -> "https://www.ebay.fr"]

priority == <<"p","r","i","o","r","i","t","y">>
camera   == <<"c","a","m","e","r","a">>
general  == <<"g","e","n","e","r","a","l">>

\* The keys of WEBHOOKS; the values come from the environment (variable WEBHOOKS).
Buckets == {priority, camera, general}

\* The slice root.findall(".//item")[:25]
MaxItems == 25

\* ------------------------------------------------------------ JSON values
Str(s)  == [t |-> "str", v |-> s]
IsStr(x) == x.t = "str"
\* A JSON list or object inside a list: Python cannot hash it.
Hashable(x) == x.t \in {"str", "int"}

Range(q) == {q[i] : i \in 1..Len(q)}

\* dict.get(k, default)
dict_get(d, k, default) == IF k \in DOMAIN d THEN d[k] ELSE default

\* Code point order of the characters that occur in the model.
CodeOrder == <<"\t", "\n", " ", "#", "1">> \o UpperCase \o LowerCase \o <<"|">>

RECURSIVE StrLess(_, _)
\* Python's < on strings
StrLess(a, b) ==
  IF b = <<>> THEN FALSE
  ELSE IF a = <<>> THEN TRUE
  ELSE IF Head(a) = Head(b) THEN StrLess(Tail(a), Tail(b))
  ELSE IndexIn(Head(a), CodeOrder) < IndexIn(Head(b), CodeOrder)

\* sorted() compares the elements pairwise: int < str raises TypeError.
Sortable(S) == \A x, y \in S : x.t = y.t

RECURSIVE sorted(_)
\* sorted(list(S)) for a sortable set S
sorted(S) ==
  IF S = {} THEN <<>>
  ELSE LET m == CHOOSE x \in S : \A y \in S \ {x} : StrLess(x.v, y.v)
       IN <<m>> \o sorted(S \ {m})

\* ------------------------------------------------------------------ keys
Bar == <<"|">>

\* hashlib.sha256(raw).hexdigest(): the digest is modelled by its tagged
\* preimage, i.e. as a collision-free function of raw.
sha256_hexdigest(raw) == <<"#">> \o raw

\* The query left out of the digest input.
raw_without_query(site, query, guid, link) == site \o Bar \o guid \o Bar \o link

\* The site and the query left out of the digest input.
raw_of_entry_only(site, query, guid, link) == guid \o Bar \o link

\* The site left out of the digest input.
raw_without_site(site, query, guid, link) == query \o Bar \o guid \o Bar \o link

\* Line 56: raw = f"{site}|{query}|{guid}|{link}".
raw(site, query, guid, link) == site \o Bar \o query \o Bar \o guid \o Bar \o link

stable_key(site, query, guid, link) == Str(sha256_hexdigest(raw(site, query, guid, link)))

\* Lines 163-169: the fields read from an <item> and its key.
item_title(item) == strip(Or(item.title, <<>>))
item_link(item)  == strip(Or(item.link, <<>>))
item_guid(item)  == strip(Or(item.guid, Or(item_link(item), item_title(item))))
item_key(site, query, item) ==
  stable_key(site, query, item_guid(item), item_link(item))

\* ------------------------------------------------------------------ files
\* A file on disk: absent, or present with content that json.load parses or not.
JNull       == [t |-> "null", v |-> <<>>]
Absent      == [exists |-> FALSE, parses |-> FALSE, json |-> JNull]
Unparsable  == [exists |-> TRUE, parses |-> FALSE, json |-> JNull]
File(value) == [exists |-> TRUE, parses |-> TRUE, json |-> value]

\* Lines 44-48.  json.load raises on unparsable content; nothing catches it.
load_json(file, default) ==
  IF ~file.exists THEN [raised |-> FALSE, val |-> default]
  ELSE IF ~file.parses THEN [raised |-> TRUE, val |-> default]
  ELSE [raised |-> FALSE, val |-> file.json]

\* Lines 50-53: the file is replaced by the dumped object.
save_json(obj) == File(obj)

List(q) == [t |-> "list", v |-> q]
Dict(f) == [t |-> "dict", v |-> f]
EmptyDict == Dict([k \in {} |-> None])

\* ------------------------------------------------------------ environment
\* Feed items as the XML gives them (findtext of a missing element is None).
eA == [title |-> <<"t">>, link |-> <<"l">>, guid |-> <<"g">>]
eB == [title |-> <<"t">>, link |-> <<"m">>, guid |-> None]
eC == [title |-> <<"u">>, link |-> <<"n">>, guid |-> <<"h">>]

qa == <<"a">>
XX == <<"X","X">>

\* Lines 39-42: quote_plus is injective, so is the URL in (site, query).
rss_url(site, query) == [base |-> SITE_BASE[site], nkw |-> query]

Urls == {rss_url(US, qa), rss_url(UK, qa), rss_url(DE, qa)}

\* What a URL serves: an RSS document with its items, or something that
\* ET.fromstring rejects.
Rss(q) == [xml |-> TRUE, items |-> q]
NotXml == [xml |-> FALSE, items |-> <<>>]

\* Length of the long feed, beyond the slice of MaxItems.
LongLen == 27

LongFeed == [i \in 1..LongLen |-> IF i < MaxItems THEN eA ELSE IF i = MaxItems THEN eB ELSE eC]

FeedWorlds ==
  { (rss_url(US, qa) :> Rss(<<eA>>)) @@ (rss_url(UK, qa) :> Rss(<<eA, eB>>))
      @@ (rss_url(DE, qa) :> Rss(LongFeed)),
    (rss_url(US, qa) :> Rss(<<eB, eA, eB>>)) @@ (rss_url(UK, qa) :> NotXml)
      @@ (rss_url(DE, qa) :> Rss(LongFeed)) }

\* Jobs of config/searches.json.
jCam  == [site |-> US, query |-> qa, bucket |-> camera]
jPri  == [site |-> US, query |-> qa, bucket |-> <<" ","P","r","i","o","r","i","t","y">>]
jUk   == [site |-> UK, query |-> qa, bucket |-> <<"o","t","h","e","r">>]
jXx   == [site |-> XX, query |-> qa, bucket |-> None]
jLong == [site |-> DE, query |-> qa]

\* Jobs and <item> elements for lines 134-169 taken on their own: site,
\* query and bucket vary, fields are absent (None), blank, or hold the delimiter.
qab == <<"a", "|", "b">>
KeyJobs == [site : {US, UK}, query : {qa, qab}, bucket : {camera, priority}]
KeyItems ==
  [guid : {None, <<" ">>, <<"g">>, <<"b", "|", "g">>}, link : {None, <<"l">>},
   title : {<<>>, <<"t">>}]
KeyInputs == [1..2 -> [job : KeyJobs, item : KeyItems]]

gA == <<"A">>
gB == <<"B">>

CfgFiles ==
  { Absent, Unparsable, File(List(<<>>)), File(EmptyDict),
    File(Dict([groups |-> (gA :> <<>>)])),
    File(Dict([groups |-> (gA :> <<jXx, jCam>>)])),
    File(Dict([groups |-> (gA :> <<jCam, jPri>>) @@ (gB :> <<jUk, jCam>>)])),
    File(Dict([groups |-> (gA :> <<jLong>>)])) }

kA == item_key(US, qa, eA)
Int1 == [t |-> "int", v |-> <<"1">>]

SeenFiles ==
  { Absent, Unparsable, File(EmptyDict), File(List(<<>>)), File(List(<<kA>>)),
    File(List(<<Int1>>)), File(List(<<List(<<>>)>>)) }

hookP == <<"h","P">>
hookC == <<"h","C">>
hookG == <<"h","G">>

\* The three environment variables, each unset ("") or a webhook URL; two
\* of them may name the same webhook.
AllWebhooks == [Buckets -> {<<>>, hookP, hookG}]
WebhookEnvs ==
  { [b \in Buckets |-> <<>>],
    (priority :> hookP) @@ (camera :> <<>>) @@ (general :> <<>>),
    (priority :> hookP) @@ (camera :> hookC) @@ (general :> hookG) }

\* Bucket labels of a job: known ones, other spellings of them, blank and
\* unknown ones, null; NoLabel is a job without the key.
Labels ==
  { priority, camera, general,
    <<"P","R","I","O","R","I","T","Y">>, <<"c","a","m","e","r","a"," ">>,
    <<"G","e","n","e","r","a","l">>, <<>>, <<" ">>, <<"o","t","h","e","r">>, None }
LabelJobs == {[site |-> US, query |-> qa, bucket |-> l] : l \in Labels}
               \cup {[site |-> US, query |-> qa]}

\* ------------------------------------------------------------------ state
VARIABLES
  GROUP,      \* environment variable GROUP (None when unset)
  WEBHOOKS,   \* lines 28-32
  cfgFile,    \* config/searches.json
  seenFile,   \* data/seen.json
  feeds,      \* what each RSS URL serves now
  pc,         \* "idle", "loop", "items", "save", "done", "crashed"
  jobs,       \* the shuffled job list
  seen, new_seen, new_count,
  jpos,       \* position of the current job in jobs
  items,      \* the current job's slice of items
  ipos,       \* position of the current item in items
  report,     \* the last status line printed
  error,      \* the unhandled exception that ended the run, or "none"
  order,      \* the permutation random.shuffle applied
  got,        \* per job of the configuration: what its fetch gave this run
  sent,       \* bag of the calls of discord_post of this run, each with the
              \* job's bucket label, the URL posted to ("" when none) and how it ended
  prevGot,    \* got of the previous run when that run saved, else <<>>
  lost,       \* keys whose delivery raised in an earlier run that saved
  known,      \* the (site, query, guid, link) whose keys data/seen.json holds
  reads,      \* how often this run has opened data/seen.json for reading
  writes,     \* how often this run has written data/seen.json
  kin,        \* two (job, item) pairs handed to lines 134-169 on their own
  kout        \* their stable_key arguments and keys, <<>> before

vars == <<GROUP, WEBHOOKS, cfgFile, seenFile, feeds, pc, jobs, seen, new_seen,
          new_count, jpos, items, ipos, report, error, order, got, sent, prevGot, lost,
          known, reads, writes, kin, kout>>

envVars == <<GROUP, WEBHOOKS, cfgFile>>

keyVars == <<kin, kout>>

\* ---------------------------------------------------------------- helpers
\* os.getenv(name, default)
getenv(v, default) == IF v = None THEN default ELSE v

Unfetched == [st |-> "unfetched", items |-> <<>>]
Skipped   == [st |-> "skipped", items |-> <<>>]
FetchFail == [st |-> "fetchfail", items |-> <<>>]
ParseFail == [st |-> "parsefail", items |-> <<>>]
Fetched(q) == [st |-> "ok", items |-> q]

NoReport == [msg |-> "none", n |-> 0]

\* Positions drawn with replacement.
Resamples(n) == [1..n -> 1..n]

\* Line 117: random.shuffle gives some permutation of the positions.
Shuffles(n) == {f \in [1..n -> 1..n] : \A a, b \in 1..n : f[a] = f[b] => a = b}

\* Lines 107-110: the jobs of the requested group.
read_jobs ==
  LET group == upper(strip(getenv(GROUP, gA)))
      r == load_json(cfgFile, EmptyDict)
  IN IF r.raised THEN [raised |-> TRUE, err |-> "JSONDecodeError", jobs |-> <<>>]
     ELSE IF r.val.t # "dict" THEN [raised |-> TRUE, err |-> "AttributeError", jobs |-> <<>>]
     ELSE [raised |-> FALSE, err |-> "none",
           jobs |-> dict_get(dict_get(r.val.v, "groups", EmptyDict.v), group, <<>>)]

\* Lines 119-122: the snapshot of data/seen.json.
read_seen ==
  LET r == load_json(seenFile, List(<<>>))
      seen_list == IF r.val.t = "list" THEN r.val.v ELSE <<>>
  IN IF r.raised THEN [raised |-> TRUE, err |-> "JSONDecodeError", set |-> {}]
     ELSE IF \E x \in Range(seen_list) : ~Hashable(x)
       THEN [raised |-> TRUE, err |-> "TypeError: unhashable type", set |-> {}]
     ELSE [raised |-> FALSE, err |-> "none", set |-> Range(seen_list)]

\* Lines 136, 141-142: the job's bucket.
job_bucket(job) ==
  LET b == strip(lower(Or(dict_get(job, "bucket", general), general)))
  IN IF b \in DOMAIN WEBHOOKS THEN b ELSE general

\* discord_post without the fallback to the webhook of general.
discord_post_url_no_fallback(bucket) == dict_get(WEBHOOKS, bucket, <<>>)

\* Line 100: the URL discord_post posts to; "" means it returns at line 102.
discord_post_url(bucket) ==
  Or(dict_get(WEBHOOKS, bucket, <<>>), dict_get(WEBHOOKS, general, <<>>))

\* The slice taken one item too long.
item_slice_off_by_one(q) == SubSeq(q, 1, IF Len(q) < MaxItems + 1 THEN Len(q) ELSE MaxItems + 1)

\* Line 162: the slice [:25].
item_slice(q) == SubSeq(q, 1, IF Len(q) < MaxItems THEN Len(q) ELSE MaxItems)

\* The dedupe test left out.
never_seen(k) == FALSE

\* The dedupe test against the accumulating set.
seen_or_added(k) == k \in new_seen

\* Line 170: the dedupe test, against the snapshot.
already_seen(k) == k \in seen

\* The key taken back when the delivery raised.
new_seen_rolled_back(k, outcome) ==
  IF outcome = "raised" THEN new_seen ELSE new_seen \cup {k}

\* Lines 173 and 197-200: new_seen after an entry whose discord_post ended
\* with the given outcome; the except clause only prints.
new_seen_after(k, outcome) == new_seen \cup {k}

\* The snapshot saved in place of the accumulated set.
keys_of_snapshot == seen

\* Only the keys added in this run.
keys_added == new_seen \ seen

\* Line 202: the set that is saved.
keys_to_save == new_seen

\* `break` in place of `continue`.
after_failure_break(next) == [pc |-> "save", jpos |-> next.jpos]

\* Lines 152-154 and 158-160: `continue` after a failed fetch or parse.
after_failure(next) == next

\* The delivery's exception not caught.
after_delivery_reraise(outcome, cont) ==
  IF outcome = "raised"
    THEN [pc |-> "crashed", jpos |-> cont.jpos, items |-> <<>>, ipos |-> 0]
    ELSE cont

\* Lines 197-200: the except clause prints and the loop goes on.
after_delivery(outcome, cont) == cont

\* The early return left out.
no_jobs_unchecked(n) == FALSE

\* Line 112: `if not jobs`.
no_jobs(n) == n = 0

\* `break` in place of `continue`.
after_unknown_site_break(next) == [pc |-> "save", jpos |-> next.jpos]

\* Lines 138-140: `continue` after the warning about an unknown site code.
after_unknown_site(next) == next

\* Lines 134-135, 163-169: the arguments stable_key is called with.
key_args(job, item) ==
  [site |-> job.site, query |-> job.query,
   guid |-> item_guid(item), link |-> item_link(item)]

\* Keys of the discord_post calls in a bag of calls, all or those that raised.
SentKeys(b)   == {c.key : c \in BagToSet(b)}
RaisedKeys(b) == {c.key : c \in {d \in BagToSet(b) : d.outcome = "raised"}}

\* The loop header at line 133 after the job at position jp: the next job,
\* or the save at line 202.
NextJob(jp) == IF jp < Len(jobs) THEN [pc |-> "loop", jpos |-> jp + 1]
                                 ELSE [pc |-> "save", jpos |-> jp]

\* --------------------------------------------------------------- actions
\* The files and the environment before the first run: every configuration
\* and every content of data/seen.json under three webhook settings, and
\* every bucket label under every webhook setting.
InitEnv ==
  \/ /\ GROUP \in {None, <<" ", "b">>}
     /\ WEBHOOKS \in WebhookEnvs
     /\ cfgFile \in CfgFiles
     /\ seenFile \in SeenFiles
  \/ /\ GROUP = None
     /\ WEBHOOKS \in AllWebhooks
     /\ cfgFile \in {File(Dict([groups |-> (gA :> <<j>>)])) : j \in LabelJobs}
     /\ seenFile = Absent

\* No process has run yet.
InitProgram ==
  /\ pc = "idle"
  /\ jobs = <<>> /\ seen = {} /\ new_seen = {} /\ new_count = 0
  /\ jpos = 0 /\ items = <<>> /\ ipos = 0
  /\ report = NoReport /\ error = "none"
  /\ order = <<>> /\ got = <<>> /\ sent = EmptyBag /\ prevGot = <<>> /\ lost = {}
  /\ reads = 0 /\ writes = 0

Init ==
  /\ InitEnv
  /\ feeds \in FeedWorlds
  /\ InitProgram
  /\ known = IF seenFile = File(List(<<kA>>)) THEN {key_args(jCam, eA)} ELSE {}
  /\ kin = <<>> /\ kout = <<>>

\* Lines 106-131: a new process starts; it ends at once without jobs.
main_start ==
  /\ pc \in {"idle", "done", "crashed"}
  /\ LET cj == read_jobs
         rs == read_seen
         n == Len(cj.jobs)
         saved == pc = "done" /\ jobs # <<>>
     IN /\ prevGot' = IF saved THEN got ELSE <<>>
        /\ lost' = IF saved THEN lost \cup RaisedKeys(sent) ELSE lost
        /\ known' = IF saved THEN known \cup {c.args : c \in BagToSet(sent)} ELSE known
        /\ reads' = IF cj.raised \/ no_jobs(n) THEN 0 ELSE 1
        /\ writes' = 0
        /\ sent' = EmptyBag /\ new_count' = 0 /\ items' = <<>> /\ ipos' = 0
        /\ IF cj.raised
             THEN /\ pc' = "crashed" /\ error' = cj.err /\ report' = NoReport
                  /\ jobs' = <<>> /\ order' = <<>> /\ got' = <<>> /\ jpos' = 0
                  /\ seen' = {} /\ new_seen' = {}
           ELSE IF no_jobs(n)
             THEN /\ pc' = "done" /\ error' = "none"
                  /\ report' = [msg |-> "searches", n |-> 0]
                  /\ jobs' = <<>> /\ order' = <<>> /\ got' = <<>> /\ jpos' = 0
                  /\ seen' = {} /\ new_seen' = {}
           ELSE \E o \in Shuffles(n) :
                  /\ order' = o
                  /\ jobs' = [k \in 1..n |-> cj.jobs[o[k]]]
                  /\ got' = [k \in 1..n |-> Unfetched]
                  /\ report' = NoReport
                  /\ IF rs.raised
                       THEN /\ pc' = "crashed" /\ error' = rs.err /\ jpos' = 0
                            /\ seen' = {} /\ new_seen' = {}
                       ELSE /\ pc' = "loop" /\ error' = "none" /\ jpos' = 1
                            /\ seen' = rs.set /\ new_seen' = rs.set
  /\ UNCHANGED <<envVars, seenFile, feeds, keyVars>>

\* Lines 133-160: one job up to its item loop.
main_job ==
  /\ pc = "loop"
  /\ LET job == jobs[jpos]
         site == job.site
         query == job.query
         next == NextJob(jpos)
         fail == after_failure(next)
         skip == after_unknown_site(next)
     IN IF site \notin DOMAIN SITE_BASE
          THEN /\ got' = [got EXCEPT ![order[jpos]] = Skipped]
               /\ pc' = skip.pc /\ jpos' = skip.jpos /\ items' = <<>> /\ ipos' = 0
          ELSE \E served \in BOOLEAN :
                 LET doc == feeds[rss_url(site, query)]
                     slice == item_slice(doc.items)
                 IN IF ~served
                      THEN /\ got' = [got EXCEPT ![order[jpos]] = FetchFail]
                           /\ pc' = fail.pc /\ jpos' = fail.jpos
                           /\ items' = <<>> /\ ipos' = 0
                    ELSE IF ~doc.xml
                      THEN /\ got' = [got EXCEPT ![order[jpos]] = ParseFail]
                           /\ pc' = fail.pc /\ jpos' = fail.jpos
                           /\ items' = <<>> /\ ipos' = 0
                    ELSE /\ got' = [got EXCEPT ![order[jpos]] = Fetched(doc.items)]
                         /\ IF slice = <<>>
                              THEN /\ pc' = next.pc /\ jpos' = next.jpos
                                   /\ items' = <<>> /\ ipos' = 0
                              ELSE /\ pc' = "items" /\ jpos' = jpos
                                   /\ items' = slice /\ ipos' = 1
  /\ UNCHANGED <<envVars, seenFile, feeds, jobs, seen, new_seen, new_count,
                 report, error, order, sent, prevGot, lost, known, reads, writes, keyVars>>

\* Lines 162-200: one item of the current job.
main_item ==
  /\ pc = "items"
  /\ LET job == jobs[jpos]
         bucket == job_bucket(job)
         k == item_key(job.site, job.query, items[ipos])
         url == discord_post_url(bucket)
         next == NextJob(jpos)
         cont == IF ipos < Len(items)
                   THEN [pc |-> "items", jpos |-> jpos, items |-> items, ipos |-> ipos + 1]
                   ELSE [pc |-> next.pc, jpos |-> next.jpos, items |-> <<>>, ipos |-> 0]
     IN IF already_seen(k)
          THEN /\ UNCHANGED <<new_seen, new_count, sent>>
               /\ pc' = cont.pc /\ jpos' = cont.jpos /\ items' = cont.items
               /\ ipos' = cont.ipos
          ELSE \E outcome \in IF url = <<>> THEN {"dropped"} ELSE {"ok", "raised"} :
                 LET after == after_delivery(outcome, cont)
                 IN /\ new_seen' = new_seen_after(k, outcome)
                    /\ new_count' = new_count + 1
                    /\ sent' = sent (+) SetToBag({[label |-> dict_get(job, "bucket", None),
                                                   bucket |-> bucket, url |-> url,
                                                   args |-> key_args(job, items[ipos]),
                                                   key |-> k, outcome |-> outcome]})
                    /\ pc' = after.pc /\ jpos' = after.jpos /\ items' = after.items
                    /\ ipos' = after.ipos
  /\ UNCHANGED <<envVars, seenFile, feeds, jobs, seen, report, error, order, got,
                 prevGot, lost, known, reads, writes, keyVars>>

\* Lines 202-203: sort, save, report.
main_save ==
  /\ pc = "save"
  /\ IF Sortable(keys_to_save)
       THEN /\ seenFile' = save_json(List(sorted(keys_to_save)))
            /\ report' = [msg |-> "new", n |-> new_count]
            /\ writes' = writes + 1
            /\ pc' = "done" /\ UNCHANGED error
       ELSE /\ pc' = "crashed" /\ error' = "TypeError: '<' not supported"
            /\ UNCHANGED <<seenFile, report, writes>>
  /\ UNCHANGED <<envVars, feeds, jobs, seen, new_seen, new_count, jpos, items, ipos,
                 order, got, sent, prevGot, lost, known, reads, keyVars>>

\* The remote feeds change between two runs.
feed_change ==
  /\ pc \in {"idle", "done", "crashed"}
  /\ feeds' \in FeedWorlds \ {feeds}
  /\ UNCHANGED <<envVars, seenFile, pc, jobs, seen, new_seen, new_count, jpos, items,
                 ipos, report, error, order, got, sent, prevGot, lost, known, reads,
                 writes, keyVars>>

\* Lines 134-135 and 163-169 for each of the two (job, item) pairs.
key_step ==
  /\ kin # <<>> /\ kout = <<>>
  /\ kout' = [i \in 1..2 |->
               LET job == kin[i].job
                   item == kin[i].item
                   a == key_args(job, item)
               IN [args |-> a,
                   guid |-> item_guid(item),
                   raw |-> raw(a.site, a.query, a.guid, a.link),
                   key |-> item_key(job.site, job.query, item)]]
  /\ UNCHANGED <<envVars, seenFile, feeds, pc, jobs, seen, new_seen, new_count, jpos,
                 items, ipos, report, error, order, got, sent, prevGot, lost, known,
                 reads, writes, kin>>

Next == main_start \/ main_job \/ main_item \/ main_save \/ feed_change

Spec == Init /\ [][Next]_vars

\* The key computation on its own: no file, no feed, no run.
InitKey ==
  /\ GROUP = None /\ WEBHOOKS = [b \in Buckets |-> <<>>]
  /\ cfgFile = Absent /\ seenFile = Absent
  /\ feeds \in {w \in FeedWorlds : w[rss_url(UK, qa)] = NotXml}
  /\ InitProgram
  /\ known = {}
  /\ kin \in KeyInputs /\ kout = <<>>

NextKey == key_step

SpecKey == InitKey /\ [][NextKey]_vars

\* ----------------------------------------------------------------- claims
\* The run ended at line 203, after the save.
RunSaved == pc = "done" /\ jobs # <<>>

\* The content of data/seen.json as a set, when it is a JSON list.
Persisted == Range(seenFile.json.v)

\* The job at position k of the shuffled list and what its fetch gave.
GotAt(k) == got[order[k]]
KeyAt(k, n) == item_key(jobs[k].site, jobs[k].query, GotAt(k).items[n])

\* The entries of this run that the pipeline is to treat as new: item n of
\* the job at position k, among the first MaxItems items of a feed that was
\* fetched and parsed, with a key outside the snapshot.
NewEntries ==
  {e \in (1..Len(jobs)) \X (1..MaxItems) :
     /\ GotAt(e[1]).st = "ok"
     /\ e[2] <= Len(GotAt(e[1]).items)
     /\ KeyAt(e[1], e[2]) \notin seen}
NewKeys == {KeyAt(e[1], e[2]) : e \in NewEntries}

\* C1: when a run that saved is followed by a run in which every feed that
\* is obtained is the one the earlier run obtained for that job, the later
\* run reports zero new entries and calls discord_post for nothing.
C1_Idempotent ==
  (RunSaved /\ prevGot # <<>>
     /\ \A i \in DOMAIN got : got[i].st = "ok" => prevGot[i] = got[i])
  => (report = [msg |-> "new", n |-> 0] /\ new_count = 0 /\ sent = EmptyBag)

C1_Witness ==
  /\ RunSaved /\ prevGot # <<>>
  /\ \A i \in DOMAIN got : got[i].st = "ok" => prevGot[i] = got[i]
  /\ \E i \in DOMAIN got : got[i].st = "ok" /\ Len(got[i].items) > 1
  /\ report = [msg |-> "new", n |-> 0]

\* C2: when a run has saved, data/seen.json holds exactly the snapshot and
\* the keys of the entries found outside the snapshot, whatever became of
\* their delivery (posted, raised, or dropped for lack of a webhook).
C2_PersistedIsUnion ==
  RunSaved =>
    /\ seenFile.exists /\ seenFile.parses /\ seenFile.json.t = "list"
    /\ Persisted = seen \cup SentKeys(sent)
    /\ SentKeys(sent) = NewKeys

C2_Witness ==
  /\ RunSaved
  /\ seen # {}
  /\ \E c, d \in BagToSet(sent) : c.outcome = "raised" /\ d.outcome = "dropped"
  /\ \E c \in BagToSet(sent) : c.outcome = "ok"

\* C3: an entry whose key is in the snapshot is skipped: handling it leaves
\* new_seen, new_count and the calls of discord_post as they are.
C3_SeenEntrySkipped ==
  [][(pc = "items"
        /\ item_key(jobs[jpos].site, jobs[jpos].query, items[ipos]) \in seen)
       => (new_seen' = new_seen /\ new_count' = new_count /\ sent' = sent)]_vars

C3_Witness ==
  /\ RunSaved
  /\ \E k \in 1..Len(jobs) :
       /\ GotAt(k).st = "ok"
       /\ \E n \in 1..Len(GotAt(k).items) : n <= MaxItems /\ KeyAt(k, n) \in seen
  /\ new_count > 0

\* The calls of discord_post in bag b that satisfy P.
Calls(b, P(_)) == [c \in {d \in BagToSet(b) : P(d)} |-> b[c]]
CallCount(b, P(_)) == BagCardinality(Calls(b, P))

\* All jobs have been handled and every new entry has been counted,
\* recorded and handed to discord_post once, under its job's bucket label.
AllProcessed ==
  /\ \A k \in 1..Len(jobs) : GotAt(k).st # "unfetched"
  /\ new_seen = seen \cup NewKeys
  /\ new_count = Cardinality(NewEntries)
  /\ \A k \in 1..Len(jobs) : \A key \in NewKeys \cup SentKeys(sent) :
       LET l == dict_get(jobs[k], "bucket", None)
           Same(c) == c.label = l /\ c.key = key
       IN CallCount(sent, Same) =
            Cardinality({e \in NewEntries :
                           /\ dict_get(jobs[e[1]], "bucket", None) = l
                           /\ KeyAt(e[1], e[2]) = key})

\* C4: a delivery that raises does not take the entry's key back and does
\* not end the run: the step goes on to the next entry, job or the save,
\* all jobs and entries are handled, the key is in data/seen.json once the
\* run has saved, and no later run calls discord_post for it.
C4_DeliveryFailureKeepsKey ==
  /\ [](RaisedKeys(sent) \subseteq new_seen)
  /\ [](RunSaved => RaisedKeys(sent) \subseteq Persisted)
  /\ [](lost \cap SentKeys(sent) = {})
  /\ []((pc = "save" /\ RaisedKeys(sent) # {}) => AllProcessed)
  /\ [][(RaisedKeys(sent') # RaisedKeys(sent) /\ sent' # EmptyBag)
          => (pc' \in {"items", "loop", "save"} /\ error' = "none")]_vars

C4_Witness ==
  /\ RunSaved /\ lost # {}
  /\ \E k \in 1..Len(jobs) :
       /\ GotAt(k).st = "ok"
       /\ \E n \in 1..Len(GotAt(k).items) : n <= MaxItems /\ KeyAt(k, n) \in lost

\* C5: a job whose fetch or parse fails counts as a feed without entries:
\* the run goes on, and at its end the keys, the count and the calls of
\* discord_post are those of the entries of the feeds that were obtained,
\* each job contributing what its own feed holds; the set is saved.
C5_FailedJobIsEmpty ==
  /\ (pc = "save" \/ RunSaved) => AllProcessed
  /\ RunSaved => (seenFile.json.t = "list" /\ Persisted = seen \cup NewKeys)

C5_Witness ==
  /\ RunSaved
  /\ \E k1, k2, k3 \in 1..Len(jobs) :
       /\ k1 < k2 /\ GotAt(k1).st \in {"fetchfail", "parsefail"}
       /\ GotAt(k3).st = "parsefail"
       /\ GotAt(k2).st = "ok" /\ \E e \in NewEntries : e[1] = k2

\* data/seen.json holds a JSON list of strings.
WellFormedSeen(f) ==
  /\ f.exists /\ f.parses /\ f.json.t = "list"
  /\ \A x \in Range(f.json.v) : IsStr(x)

\* C6: loading data/seen.json never fails the run: when the file is absent
\* or does not hold a list of key strings, the snapshot is empty and the
\* run goes on.
C6_LoadNeverFails ==
  (jobs # <<>> /\ pc \in {"loop", "items", "save", "crashed"} /\ ~WellFormedSeen(seenFile))
    => (seen = {} /\ pc # "crashed")

\* The destination the reference function gives a bucket label: the label's
\* own webhook when the label is known and its webhook is set, otherwise the
\* webhook of general ("" when that is not set either).
Route(l) ==
  IF l \in {priority, camera, general} /\ WEBHOOKS[l] # <<>>
    THEN WEBHOOKS[l] ELSE WEBHOOKS[general]

Folded(l) == IF l = None THEN <<>> ELSE strip(lower(l))

\* C7 as stated: every call of discord_post goes to the destination the
\* reference function gives the job's bucket label as written, and the call
\* returns without posting exactly when that is no destination.
C7_RoutesByLabel ==
  \A c \in BagToSet(sent) :
    /\ c.url = Route(c.label)
    /\ c.outcome = "dropped" <=> c.url = <<>>

\* C7 amended: the same with the label lower-cased and stripped of
\* surrounding whitespace before it is looked up in the known set.
C7_RoutesByFoldedLabel ==
  \A c \in BagToSet(sent) :
    /\ c.url = Route(Folded(c.label))
    /\ c.outcome = "dropped" <=> c.url = <<>>

C7_Witness ==
  /\ RunSaved
  /\ WEBHOOKS[general] = hookG
  /\ \E c \in BagToSet(sent) :
       c.label = <<"P","R","I","O","R","I","T","Y">> /\ c.url = hookP /\ c.outcome = "ok"

\* C8: of a feed only the first MaxItems items are handled: the item loop
\* runs over that prefix, and keys, count and calls of discord_post come
\* from entries at positions 1..MaxItems only.
C8_BoundedFanOut ==
  /\ Len(items) <= MaxItems /\ ipos <= MaxItems
  /\ pc = "items" =>
       /\ Len(items) <= Len(GotAt(jpos).items)
       /\ items = SubSeq(GotAt(jpos).items, 1, Len(items))
  /\ SentKeys(sent) \subseteq NewKeys
  /\ new_seen \subseteq seen \cup NewKeys
  /\ new_count <= Cardinality(NewEntries)
  /\ BagCardinality(sent) = new_count

C8_Witness ==
  /\ RunSaved /\ seen = {}
  /\ \E k \in 1..Len(jobs) :
       /\ GotAt(k).st = "ok" /\ Len(GotAt(k).items) > MaxItems
       /\ item_key(jobs[k].site, jobs[k].query, GotAt(k).items[MaxItems + 1]) \notin Persisted
       /\ KeyAt(k, MaxItems) \in Persisted
  /\ new_count = MaxItems

\* The group the run asks for, and whether the configuration has no jobs
\* for it: no file, no "groups", no such group, or an empty list.
RequestedGroup == IF GROUP = None THEN gA ELSE upper(strip(GROUP))
NoJobsForGroup ==
  \/ ~cfgFile.exists
  \/ /\ cfgFile.parses /\ cfgFile.json.t = "dict"
     /\ \/ "groups" \notin DOMAIN cfgFile.json.v
        \/ RequestedGroup \notin DOMAIN cfgFile.json.v.groups
        \/ cfgFile.json.v.groups[RequestedGroup] = <<>>

\* C9: without jobs for the requested group a run ends at once: it prints
\* the zero-searches line, counts nothing new, fetches nothing and calls
\* discord_post for nothing.
C9_EmptyGroupIsNoOp ==
  (pc # "idle" /\ NoJobsForGroup)
    => /\ pc = "done" /\ error = "none"
       /\ report = [msg |-> "searches", n |-> 0]
       /\ new_count = 0 /\ got = <<>> /\ sent = EmptyBag

C9_Witness ==
  /\ pc = "done" /\ NoJobsForGroup
  /\ cfgFile.exists /\ "groups" \in DOMAIN cfgFile.json.v
  /\ RequestedGroup = gB /\ gA \in DOMAIN cfgFile.json.v.groups

\* C10: a run that has jobs never ends in an unhandled error.
C10_RunCompletes == jobs # <<>> => pc # "crashed"

\* config/searches.json exists and is not a JSON object.
MalformedCfg == cfgFile.exists /\ (~cfgFile.parses \/ cfgFile.json.t # "dict")

\* C13: a run on a configuration file that does not parse, or that is not
\* an object, ends as a run without jobs does: the zero-searches line, no
\* error, nothing fetched, nothing sent.
C13_MalformedConfigIsEmpty ==
  (pc # "idle" /\ MalformedCfg)
    => /\ pc = "done" /\ error = "none"
       /\ report = [msg |-> "searches", n |-> 0]
       /\ new_count = 0 /\ got = <<>> /\ sent = EmptyBag

\* The job at position k names a site outside SITE_BASE.
UnknownSite(k) == jobs[k].site \notin DOMAIN SITE_BASE

\* C14 as stated: a job with an unknown site code is run against a default
\* site, i.e. by the time of the save a fetch has been made for it.
C14_UnknownSiteFallsBack ==
  (pc = "save" \/ RunSaved) =>
    \A k \in 1..Len(jobs) :
      UnknownSite(k) => GotAt(k).st \in {"ok", "fetchfail", "parsefail"}

\* C14 amended: a job with an unknown site code is skipped -- no fetch, no
\* key, no call of discord_post for it -- and the loop goes on with the next
\* job, so that every other job has been handled by the time of the save.
C14_UnknownSiteSkipped ==
  /\ [](pc = "save" \/ RunSaved =>
         \A k \in 1..Len(jobs) :
           /\ UnknownSite(k) =>
                /\ GotAt(k) = Skipped
                /\ \A c \in BagToSet(sent) : c.args.site # jobs[k].site
           /\ GotAt(k).st # "unfetched")
  /\ [][pc = "loop" /\ UnknownSite(jpos) =>
         /\ pc' = NextJob(jpos).pc /\ jpos' = NextJob(jpos).jpos
         /\ error' = "none"
         /\ UNCHANGED <<new_seen, new_count, sent, seenFile>>]_vars

\* The unknown-site job came first and the job after it found a new entry.
C14_Witness ==
  /\ RunSaved /\ Len(jobs) = 2
  /\ UnknownSite(1) /\ GotAt(1) = Skipped
  /\ GotAt(2).st = "ok" /\ new_count > 0

\* The run has handled at least one job: fetched it, failed to, or skipped it.
ProcessedAJob == \E k \in 1..Len(got) : got[k].st # "unfetched"

\* C17: a run that processes at least one job reads data/seen.json once,
\* before the first fetch, does not write it while jobs are handled, and has
\* written it once when it ends.
C17_StoreReadOnceWrittenOnce ==
  /\ pc \in {"loop", "items", "save"} => reads = 1 /\ writes = 0
  /\ (ProcessedAJob /\ pc \in {"done", "crashed"}) => reads = 1 /\ writes = 1

\* The keys data/seen.json holds: none when it is absent or is not a list.
PersistedKeys ==
  IF seenFile.exists /\ seenFile.parses /\ seenFile.json.t = "list"
    THEN Range(seenFile.json.v) ELSE {}

\* C18: within a run every step keeps the snapshot and all keys added so
\* far in the accumulating set, and no step of any run removes a key from
\* data/seen.json.
C18_SeenSetNeverShrinks ==
  /\ [](pc \in {"loop", "items", "save"} => seen \subseteq new_seen)
  /\ [][(pc \in {"loop", "items", "save"})
          => (new_seen \subseteq new_seen' /\ seen' = seen)]_vars
  /\ [][PersistedKeys \subseteq PersistedKeys']_vars

\* A second run started from a non-empty store, added keys and saved.
C18_Witness ==
  /\ RunSaved /\ prevGot # <<>>
  /\ seen # {} /\ new_count > 0
  /\ seen \subseteq PersistedKeys /\ PersistedKeys # seen

\* A run is under way past the load, or has saved.
Running == pc \in {"loop", "items", "save"} \/ RunSaved

\* No discord_post call of this run is for a key that data/seen.json held
\* at the start or that an earlier run that saved was called for.
NotHandedBefore ==
  Running => \A c \in BagToSet(sent) : c.args \notin known /\ c.key \notin seen

\* C19 as stated: over runs that complete each key is handed to
\* discord_post at most once, also within one run, and the count a run
\* reports is the number of distinct keys it adds to data/seen.json.
C19_HandedAtMostOnce ==
  /\ NotHandedBefore
  /\ Running => BagCardinality(sent) = Cardinality(SentKeys(sent))
  /\ RunSaved => report.n = Cardinality(PersistedKeys \ seen)

\* C19 amended: a key is handed to discord_post in at most one run that
\* saves, and in that run once for every occurrence of it among the entries
\* obtained; the count reported is the number of these occurrences, which
\* is at least the number of distinct keys added to data/seen.json.
C19_HandedOncePerOccurrence ==
  /\ NotHandedBefore
  /\ (pc = "save" \/ RunSaved) =>
       /\ SentKeys(sent) = NewKeys
       /\ \A key \in NewKeys :
            LET Same(c) == c.key = key
            IN CallCount(sent, Same)
                 = Cardinality({e \in NewEntries : KeyAt(e[1], e[2]) = key})
  /\ RunSaved =>
       /\ report.n = Cardinality(NewEntries)
       /\ report.n >= Cardinality(PersistedKeys \ seen)
       /\ PersistedKeys \ seen = NewKeys

\* A second run that saved handed one key twice and counted it twice.
C19_Witness ==
  /\ RunSaved /\ prevGot # <<>>
  /\ BagCardinality(sent) > Cardinality(SentKeys(sent))
  /\ report.n > Cardinality(PersistedKeys \ seen)

\* The jobs in the order of config/searches.json, and the new entries of the
\* run by position in that order: neither mentions the shuffled order.
CfgJobs == read_jobs.jobs
CfgKey(e) == item_key(CfgJobs[e[1]].site, CfgJobs[e[1]].query, got[e[1]].items[e[2]])
CfgNew ==
  {e \in (1..Len(CfgJobs)) \X (1..MaxItems) :
     /\ got[e[1]].st = "ok"
     /\ e[2] <= Len(got[e[1]].items)
     /\ CfgKey(e) \notin seen}
CfgLabel(e) == dict_get(CfgJobs[e[1]], "bucket", None)

\* C20: what a run leaves behind is a function of the snapshot, the
\* configured jobs and what each job's fetch gave, whatever order the
\* shuffle chose: the set saved, the count, and how often discord_post was
\* called for each (bucket label, destination, key).
C20_OrderIndependent ==
  (pc = "save" \/ RunSaved) =>
    /\ Len(got) = Len(CfgJobs)
    /\ \A i \in 1..Len(got) : got[i].st # "unfetched"
    /\ new_seen = seen \cup {CfgKey(e) : e \in CfgNew}
    /\ new_count = Cardinality(CfgNew)
    /\ RunSaved => PersistedKeys = new_seen /\ report.n = new_count
    /\ \A e \in CfgNew :
         \E c \in BagToSet(sent) :
           /\ c.label = CfgLabel(e) /\ c.key = CfgKey(e)
           /\ c.bucket = job_bucket(CfgJobs[e[1]]) /\ c.url = discord_post_url(c.bucket)
    /\ \A c \in BagToSet(sent) :
         LET Same(d) == d.label = c.label /\ d.url = c.url /\ d.key = c.key
         IN CallCount(sent, Same)
              = Cardinality({e \in CfgNew : CfgLabel(e) = c.label /\ CfgKey(e) = c.key})

\* The shuffle reversed two jobs that obtained the same new entry under
\* different bucket labels.
C20_Witness ==
  /\ RunSaved /\ Len(jobs) = 2 /\ order[1] = 2
  /\ \E e1, e2 \in CfgNew :
       /\ e1[1] # e2[1] /\ CfgKey(e1) = CfgKey(e2)
       /\ CfgLabel(e1) # CfgLabel(e2)

\* ------------------------------------------------- claims on the identity key
\* The two argument tuples that stable_key was called with.
Keyed == kout # <<>>
DifferIn(a, b) == {f \in {"site", "query", "guid", "link"} : a[f] # b[f]}

\* C11: stable_key is a function of (site, query, guid, link): equal argument
\* tuples give equal keys, and two tuples that differ in exactly one of the
\* four arguments give different digest inputs (and different keys).
C11_KeyOfArguments ==
  Keyed =>
    /\ kout[1].args = kout[2].args => kout[1].key = kout[2].key
    /\ Cardinality(DifferIn(kout[1].args, kout[2].args)) = 1
         => kout[1].raw # kout[2].raw /\ kout[1].key # kout[2].key
    /\ \A i \in 1..2 :
         kout[i].key = stable_key(kout[i].args.site, kout[i].args.query,
                                  kout[i].args.guid, kout[i].args.link)

\* Two calls that differ in the query alone, one query holding the delimiter.
C11_Witness ==
  /\ Keyed
  /\ DifferIn(kout[1].args, kout[2].args) = {"query"}
  /\ kout[1].args.query = qab
  /\ kout[1].raw # kout[2].raw

\* The stable_key arguments of item n of the job at position k.
ArgsAt(k, n) == key_args(jobs[k], GotAt(k).items[n])
KeyOf(a) == stable_key(a.site, a.query, a.guid, a.link)

\* Entry e = <<k, n>> was obtained in this run, its own (site, query, guid,
\* link) was never recorded, and data/seen.json holds the key of the same
\* listing (same guid and link) recorded under another site or query.
SeenUnderOtherJob(e) ==
  /\ GotAt(e[1]).st = "ok"
  /\ e[2] <= Len(GotAt(e[1]).items)
  /\ ArgsAt(e[1], e[2]) \notin known
  /\ \E t \in known :
       /\ KeyOf(t) \in seen
       /\ t.guid = ArgsAt(e[1], e[2]).guid /\ t.link = ArgsAt(e[1], e[2]).link
       /\ t.site # ArgsAt(e[1], e[2]).site \/ t.query # ArgsAt(e[1], e[2]).query
NotifiedFor(e) ==
  \E c \in BagToSet(sent) : c.args = ArgsAt(e[1], e[2]) /\ c.key = KeyAt(e[1], e[2])

SameItem == Keyed /\ kin[1].item = kin[2].item

\* C15 as stated: the key identifies the (job, entry) pair, a job being the
\* (site, query, bucket) unit: two different jobs have different keys for
\* the same entry.
C15_KeyIdentifiesJob ==
  (SameItem /\ kin[1].job # kin[2].job) => kout[1].key # kout[2].key

\* C15 amended: the key identifies the ((site, query), entry) pair: for the
\* same entry two jobs have the same key exactly when they have the same
\* site and the same query, whatever their buckets.
C15_KeyIdentifiesSearch ==
  SameItem =>
    (kout[1].key = kout[2].key
       <=> (kin[1].job.site = kin[2].job.site /\ kin[1].job.query = kin[2].job.query))

\* Two jobs that differ in the bucket alone share the key of an entry.
C15_Witness ==
  /\ SameItem
  /\ kin[1].job.site = kin[2].job.site /\ kin[1].job.query = kin[2].job.query
  /\ kin[1].job.bucket # kin[2].job.bucket
  /\ kout[1].key = kout[2].key

\* A field of an <item> as text: a missing element counts as empty, and
\* surrounding whitespace does not count.
Text(x) == strip(Or(x, <<>>))

\* C16: the guid argument of stable_key is the item's guid when that is
\* non-empty, otherwise its link when that is non-empty, otherwise its
\* title; it is empty only when guid, link and title are all empty.
C16_GuidFallback ==
  Keyed =>
    \A i \in 1..2 :
      LET g == Text(kin[i].item.guid)
          l == Text(kin[i].item.link)
          t == Text(kin[i].item.title)
      IN /\ kout[i].guid = (IF g # <<>> THEN g ELSE IF l # <<>> THEN l ELSE t)
         /\ kout[i].guid = <<>> => (g = <<>> /\ l = <<>> /\ t = <<>>)

====
